---- MODULE Spec2Model ----
(***************************************************************************)
(* Model of the modulation scripts of pgiacalo/sdr.  Every script is a     *)
(* separate Python program: a state of the model is the set of globals of  *)
(* the one script (or function call) that has just run.                    *)
(*   script : which script / function produced the globals                 *)
(*   g      : the globals (a record; its fields keep the source's names)   *)
(* Real numbers are kept exact: a time is a reduced fraction <<num, den>>, *)
(* a waveform sample a*cos(2*pi*c) + b*sin(2*pi*c) is the record           *)
(* [cosAmp |-> a, sinAmp |-> b, cycles |-> c] with c = f_carrier * t.      *)
(***************************************************************************)
EXTENDS Integers, Sequences, FiniteSets, TLC

VARIABLES script, g

vars == <<script, g>>

(* ------------------------------ bounds -------------------------------- *)
\* longest symbol stream handed to modulate_signal
MaxSymbols == 2
\* largest sample_rate and symbol_rate handed to modulate_signal
MaxRate == 5
\* largest number of QAM points typed at the prompt of qam_prompt.py
MaxPoints == 64
\* longest random symbol sequence of 16-QAM_time_domain_plot.py
MaxData == 2
\* longest signal handed to calculate_evm
MaxSamples == 3

(* --------------------------- exact arithmetic -------------------------- *)
RECURSIVE GCD(_, _)
GCD(a, b) == IF b = 0 THEN a ELSE GCD(b, a % b)

\* the fraction n/d (n >= 0, d > 0) in lowest terms
Frac(n, d) == LET c == GCD(n, d) IN <<n \div c, d \div c>>

FracMulInt(k, x) == Frac(k * x[1], x[2])

\* floor(sqrt(x)) by bisection, as int(np.sqrt(x)) gives for x >= 0
RECURSIVE ISqrtBetween(_, _, _)
ISqrtBetween(x, lo, hi) ==
    IF lo = hi THEN lo
    ELSE LET mid == (lo + hi + 1) \div 2
         IN  IF mid * mid <= x THEN ISqrtBetween(x, mid, hi)
                               ELSE ISqrtBetween(x, lo, mid - 1)

\* (46340 is the largest root whose square fits the 32-bit integers of TLC)
ISqrt(x) == ISqrtBetween(x, 0, IF x < 46340 THEN x ELSE 46340)

(* ------------------------------ numpy ---------------------------------- *)
\* np.arange(start, stop, step) for integers, step > 0
np_arange(start, stop, step) ==
    LET n == IF stop > start THEN (stop - start + step - 1) \div step ELSE 0
    IN  [i \in 1..n |-> start + (i - 1) * step]

\* np.tile(a, k): the whole array k times
RECURSIVE np_tile(_, _)
np_tile(a, k) == IF k = 0 THEN <<>> ELSE a \o np_tile(a, k - 1)

\* np.repeat mistaken for np.tile
np_repeat_tiled(a, k) == np_tile(a, k)

\* np.repeat(a, k): every element k times, in order
RECURSIVE np_repeat(_, _)
np_repeat(a, k) ==
    IF a = <<>> THEN <<>>
    ELSE [i \in 1..k |-> Head(a)] \o np_repeat(Tail(a), k)

\* X, Y = np.meshgrid(xs, ys); X.flatten(), Y.flatten()  (row-major)
meshgrid_flatten(xs, ys) ==
    LET nx == Len(xs)
        n  == nx * Len(ys)
    IN  [X |-> [k \in 1..n |-> xs[((k - 1) % nx) + 1]],
         Y |-> [k \in 1..n |-> ys[((k - 1) \div nx) + 1]]]

\* np.linspace(0, stop, num, endpoint=True): step = stop / (num - 1)
np_linspace_endpoint(stop, num) ==
    [i \in 1..num |->
        IF num = 1 THEN <<0, 1>>
        ELSE Frac((i - 1) * stop[1], stop[2] * (num - 1))]

\* np.linspace(0, stop, num, endpoint=False): step = stop / num
np_linspace(stop, num) ==
    [i \in 1..num |-> Frac((i - 1) * stop[1], stop[2] * num)]

(* ---------------------------- qam_prompt.py ---------------------------- *)
\* the lattice started one step too low: np.arange(-m, m, 2)
generate_qam_constellation_shifted(m) ==
    LET x  == np_arange(-m, m, 2)
        IQ == meshgrid_flatten(x, x)
    IN  [I |-> IQ.X, Q |-> IQ.Y]

generate_qam_constellation(m) ==
    LET x  == np_arange(-m + 1, m, 2)
        IQ == meshgrid_flatten(x, x)
    IN  [I |-> IQ.X, Q |-> IQ.Y]

\* total_samples computed from the un-floored ratio
total_samples_unfloored(num_symbols, sample_rate, symbol_rate) ==
    (num_symbols * sample_rate) \div symbol_rate

\* samples_per_symbol = int(sample_rate / symbol_rate); total_samples
total_samples_of(num_symbols, sample_rate, symbol_rate) ==
    (sample_rate \div symbol_rate) * num_symbols

\* amp * np.cos(2 * np.pi * f_carrier * t), sample by sample
CosWave(amp, f_carrier, t) ==
    [n \in 1..Len(t) |->
        [cosAmp |-> amp[n], sinAmp |-> 0, cycles |-> FracMulInt(f_carrier, t[n])]]

\* amp * np.sin(2 * np.pi * f_carrier * t), sample by sample
SinWave(amp, f_carrier, t) ==
    [n \in 1..Len(t) |->
        [cosAmp |-> 0, sinAmp |-> amp[n], cycles |-> FracMulInt(f_carrier, t[n])]]

\* a + b of two waves over the same time array
AddWaves(a, b) ==
    [n \in 1..Len(a) |->
        [cosAmp |-> a[n].cosAmp + b[n].cosAmp,
         sinAmp |-> a[n].sinAmp + b[n].sinAmp,
         cycles |-> a[n].cycles]]

modulate_signal(I, Q, f_carrier, sample_rate, symbol_rate) ==
    IF symbol_rate = 0
    THEN [err |-> "ZeroDivisionError", t |-> <<>>, modulated_signal |-> <<>>]
    ELSE
    LET num_symbols        == Len(I)
        samples_per_symbol == sample_rate \div symbol_rate
        total_samples      == total_samples_of(num_symbols, sample_rate, symbol_rate)
        t        == np_linspace(Frac(num_symbols, symbol_rate), total_samples)
        I_signal == np_repeat(I, samples_per_symbol)
        Q_signal == np_repeat(Q, samples_per_symbol)
    IN  IF Len(t) # Len(I_signal)
        THEN [err |-> "ValueError", t |-> <<>>, modulated_signal |-> <<>>]
        ELSE [err |-> "none", t |-> t,
              modulated_signal |-> AddWaves(CosWave(I_signal, f_carrier, t),
                                            SinWave(Q_signal, f_carrier, t))]

\* main parameters of qam_prompt.py
f_carrier_prompt == 1000
sample_rate_prompt == 10000
symbol_rate_prompt == 100

\* the amplitudes a symbol of a stream can take in the calls below
Levels == {-1, 1}

\* the carrier frequencies (Hz) tried in the calls below
Carriers == {1, 2}

Streams == UNION {[1..n -> Levels \X Levels] : n \in 0..MaxSymbols}

\* a call of modulate_signal(I, Q, f_carrier, sample_rate, symbol_rate)
call_modulate_signal ==
    \E s \in Streams, f \in Carriers, sr \in 0..MaxRate, symr \in 0..MaxRate :
        LET I == [n \in 1..Len(s) |-> s[n][1]]
            Q == [n \in 1..Len(s) |-> s[n][2]]
            r == modulate_signal(I, Q, f, sr, symr)
        IN  /\ script = "idle"
            /\ script' = "modulate_signal"
            /\ g' = [I |-> I, Q |-> Q, f_carrier |-> f, sample_rate |-> sr,
                     symbol_rate |-> symr, err |-> r.err, t |-> r.t,
                     modulated_signal |-> r.modulated_signal]

\* qam_prompt.py run with num_points typed at the prompt
run_qam_prompt ==
    \E num_points \in -1..MaxPoints :
        /\ script = "idle"
        /\ script' = "qam_prompt"
        /\ IF num_points < 0
           THEN g' = [num_points |-> num_points, err |-> "ValueError",
                      I |-> <<>>, Q |-> <<>>, t |-> <<>>, modulated_signal |-> <<>>]
           ELSE LET sqrt_num_points == ISqrt(num_points)
                    c == generate_qam_constellation(sqrt_num_points)
                    r == modulate_signal(c.I, c.Q, f_carrier_prompt,
                                         sample_rate_prompt, symbol_rate_prompt)
                IN  g' = [num_points |-> num_points, err |-> r.err,
                          I |-> c.I, Q |-> c.Q, t |-> r.t,
                          modulated_signal |-> r.modulated_signal]

(* ------------- QAM_Explanation/plot_constellation_diagram_with_choices.py *)
\* a bit label such as '0100', most significant bit first
Bits(a, b, c, d) == <<a, b, c, d>>

\* int(bv, 2)
RECURSIVE BitsToInt(_)
BitsToInt(bv) ==
    IF bv = <<>> THEN 0
    ELSE 2 * BitsToInt(SubSeq(bv, 1, Len(bv) - 1)) + bv[Len(bv)]

\* the literal I_values / Q_values of every choice
I_values_choices == <<-3, -1, 1, 3, -3, -1, 1, 3, -3, -1, 1, 3, -3, -1, 1, 3>>
Q_values_choices == <<-3, -3, -3, -3, -1, -1, -1, -1, 1, 1, 1, 1, 3, 3, 3, 3>>

\* choice '2': Natural Binary Coding
\* the natural-binary table replaced by a reflected (Gray) one
bit_values_nbc_reflected ==
    << Bits(0,1,0,0), Bits(0,1,0,1), Bits(0,1,1,1), Bits(0,1,1,0),
       Bits(0,0,0,0), Bits(0,0,0,1), Bits(0,0,1,1), Bits(0,0,1,0),
       Bits(1,0,0,0), Bits(1,0,0,1), Bits(1,0,1,1), Bits(1,0,1,0),
       Bits(1,1,0,0), Bits(1,1,0,1), Bits(1,1,1,1), Bits(1,1,1,0) >>

\* the set-partitioning table with one label typed twice
bit_values_set_partition_repeated ==
    << Bits(0,0,0,0), Bits(0,0,0,1), Bits(0,0,1,1), Bits(0,0,1,1),
       Bits(0,1,0,0), Bits(0,1,0,1), Bits(0,1,1,1), Bits(0,1,1,0),
       Bits(1,0,0,0), Bits(1,0,0,1), Bits(1,0,1,1), Bits(1,0,1,0),
       Bits(1,1,0,0), Bits(1,1,0,1), Bits(1,1,1,1), Bits(1,1,1,0) >>

bit_values_nbc ==
    << Bits(0,0,0,0), Bits(0,0,0,1), Bits(0,0,1,0), Bits(0,0,1,1),
       Bits(0,1,0,0), Bits(0,1,0,1), Bits(0,1,1,0), Bits(0,1,1,1),
       Bits(1,0,0,0), Bits(1,0,0,1), Bits(1,0,1,0), Bits(1,0,1,1),
       Bits(1,1,0,0), Bits(1,1,0,1), Bits(1,1,1,0), Bits(1,1,1,1) >>

\* choice '3': Set-Partitioning
bit_values_set_partition ==
    << Bits(0,0,0,0), Bits(0,0,0,1), Bits(0,0,1,1), Bits(0,0,1,0),
       Bits(0,1,0,0), Bits(0,1,0,1), Bits(0,1,1,1), Bits(0,1,1,0),
       Bits(1,0,0,0), Bits(1,0,0,1), Bits(1,0,1,1), Bits(1,0,1,0),
       Bits(1,1,0,0), Bits(1,1,0,1), Bits(1,1,1,1), Bits(1,1,1,0) >>

\* the Gray table with the rows of the set-partitioning table pasted in
bit_values_gray_pasted == bit_values_set_partition

\* choice '1': Gray-coded
bit_values_gray ==
    << Bits(0,1,0,0), Bits(0,1,0,1), Bits(0,1,1,1), Bits(0,1,1,0),
       Bits(0,0,0,0), Bits(0,0,0,1), Bits(0,0,1,1), Bits(0,0,1,0),
       Bits(1,0,0,0), Bits(1,0,0,1), Bits(1,0,1,1), Bits(1,0,1,0),
       Bits(1,1,0,0), Bits(1,1,0,1), Bits(1,1,1,1), Bits(1,1,1,0) >>

\* choice '4': LTE Gray-coded
bit_values_lte ==
    << Bits(0,1,0,0), Bits(0,1,0,1), Bits(0,1,1,1), Bits(0,1,1,0),
       Bits(0,0,0,0), Bits(0,0,0,1), Bits(0,0,1,1), Bits(0,0,1,0),
       Bits(1,0,0,0), Bits(1,0,0,1), Bits(1,0,1,1), Bits(1,0,1,0),
       Bits(1,1,0,0), Bits(1,1,0,1), Bits(1,1,1,1), Bits(1,1,1,0) >>

\* the heading of the summary print_summary(choice) prints
print_summary(choice) ==
    CASE choice = "1" -> "Gray-coded 16-QAM:"
      [] choice = "2" -> "Natural Binary Coding (NBC) 16-QAM:"
      [] choice = "3" -> "Set-Partitioning 16-QAM:"
      [] choice = "4" -> "LTE Gray-Coded 16-QAM:"
      [] OTHER        -> "Invalid choice."

\* what the user may type at the prompt of main()
Choices == {"1", "2", "3", "4", "5", "gray"}

\* the bit_values table main() picks for a supported choice
bit_values_of(choice) ==
    CASE choice = "1" -> bit_values_gray
      [] choice = "2" -> bit_values_nbc
      [] choice = "3" -> bit_values_set_partition
      [] choice = "4" -> bit_values_lte

\* what main() leaves behind for a supported choice: the tables, the
\* summary printed and the diagram drawn
main_supported(choice, typed) ==
    [choice |-> typed, err |-> "none",
     bit_values |-> bit_values_of(choice),
     decimal_values |->
         [i \in 1..Len(bit_values_of(choice)) |-> BitsToInt(bit_values_of(choice)[i])],
     I_values |-> I_values_choices,
     Q_values |-> Q_values_choices,
     printed |-> <<print_summary(choice)>>,
     plotted |-> TRUE]

\* main() falling back to the Gray table for an unknown choice
main_with_choices_defaulting(choice) ==
    IF choice \in {"1", "2", "3", "4"}
    THEN main_supported(choice, choice)
    ELSE main_supported("1", choice)

\* main() for the choice typed: an unknown choice prints "Invalid choice."
\* and returns before anything is summarised or drawn
main_with_choices(choice) ==
    IF choice \in {"1", "2", "3", "4"}
    THEN main_supported(choice, choice)
    ELSE [choice |-> choice, err |-> "none",
          bit_values |-> <<>>, decimal_values |-> <<>>,
          I_values |-> <<>>, Q_values |-> <<>>,
          printed |-> <<"Invalid choice.">>, plotted |-> FALSE]

\* plot_constellation_diagram_with_choices.py run with a choice typed
run_with_choices ==
    \E choice \in Choices :
        /\ script = "idle"
        /\ script' = "with_choices"
        /\ g' = main_with_choices(choice)

(* ------------------------- amplitude and phase -------------------------- *)
Abs(x) == IF x < 0 THEN -x ELSE x

\* np.sqrt(I**2 + Q**2), in hundredths (as "{:.2f}" shows it)
Amp100(I, Q) == (ISqrt(40000 * (I * I + Q * Q)) + 1) \div 2

\* degrees(arctan(y / x)) in hundredths for 0 <= y <= x, x > 0
ArctanDeg100(y, x) ==
    LET r == Frac(y, x)
    IN  CASE r = <<0, 1>> -> 0
          [] r = <<1, 3>> -> 1843
          [] r = <<1, 2>> -> 2657
          [] r = <<2, 3>> -> 3369
          [] r = <<1, 1>> -> 4500

\* np.degrees(np.arctan2(y, x)) in hundredths: a value in (-180.00, 180.00]
arctan2_deg100(y, x) ==
    IF x = 0 /\ y = 0 THEN 0
    ELSE LET ax == Abs(x)
             ay == Abs(y)
             q1 == IF ay <= ax THEN ArctanDeg100(ay, ax)
                               ELSE 9000 - ArctanDeg100(ax, ay)
             upper == IF x >= 0 THEN q1 ELSE 18000 - q1
         IN  IF y >= 0 THEN upper ELSE -upper

(* ----------------------- 16-QAM_time_domain_plot.py --------------------- *)
\* symbol_map ("Gray coded"): symbol -> I + jQ, kept as <<I, Q>>
symbol_map ==
    LET table == << <<-3, -3>>, <<-3, -1>>, <<-3, 3>>, <<-3, 1>>,
                    <<-1, -3>>, <<-1, -1>>, <<-1, 3>>, <<-1, 1>>,
                    << 3, -3>>, << 3, -1>>, << 3, 3>>, << 3, 1>>,
                    << 1, -3>>, << 1, -1>>, << 1, 3>>, << 1, 1>> >>
    IN  [k \in 0..15 |-> table[k + 1]]

\* 16-QAM_time_domain_plot.py run with the random data_symbols drawn
run_time_domain_plot ==
    \E n \in 0..MaxData :
        \E data_symbols \in [1..n -> 0..15] :
            /\ script = "idle"
            /\ script' = "time_domain_plot"
            /\ g' = [err |-> "none",
                     symbol_map |-> symbol_map,
                     data_symbols |-> data_symbols,
                     modulated_signal |-> [i \in 1..n |-> symbol_map[data_symbols[i]]],
                     amplitude_envelope |->
                         [i \in 1..n |-> Amp100(symbol_map[data_symbols[i]][1],
                                                symbol_map[data_symbols[i]][2])]]

(* --------------------------- 16qam_realtime.py -------------------------- *)
f_carrier_realtime == 20
sample_rate_realtime == 1000
symbol_rate_realtime == 2
duration_realtime == 8

\* the 4 amplitude levels of one rail
L16 == <<-3, -1, 1, 3>>

\* I_values and Q_values with np.tile and np.repeat exchanged
IQ_values_realtime_swapped == [I |-> np_repeat(L16, 4), Q |-> np_tile(L16, 4)]

\* I_values = np.tile([-3, -1, 1, 3], 4); Q_values = np.repeat([-3, -1, 1, 3], 4)
IQ_values_realtime == [I |-> np_tile(L16, 4), Q |-> np_repeat(L16, 4)]

\* the module-level code of 16qam_realtime.py, up to the start of the animation
run_16qam_realtime ==
    LET I_values == IQ_values_realtime.I
        Q_values == IQ_values_realtime.Q
        t == [n \in 1..(duration_realtime * sample_rate_realtime) |->
                 Frac(n - 1, sample_rate_realtime)]
        samples_per_symbol == sample_rate_realtime \div symbol_rate_realtime
        I_signal == np_repeat(I_values, samples_per_symbol)
        Q_signal == np_repeat(Q_values, samples_per_symbol)
        ok == Len(I_signal) = Len(t)
        modulated_I == CosWave(I_signal, f_carrier_realtime, t)
        modulated_Q == SinWave(Q_signal, f_carrier_realtime, t)
    IN  /\ script = "idle"
        /\ script' = "16qam_realtime"
        /\ g' = [err |-> IF ok THEN "none" ELSE "ValueError",
                 I_values |-> I_values, Q_values |-> Q_values,
                 t |-> t, samples_per_symbol |-> samples_per_symbol,
                 I_signal |-> I_signal, Q_signal |-> Q_signal,
                 modulated_signal |->
                     IF ok THEN AddWaves(modulated_I, modulated_Q) ELSE <<>>,
                 amplitudes |->
                     [i \in 1..Len(I_values) |-> Amp100(I_values[i], Q_values[i])],
                 phases_deg |->
                     [i \in 1..Len(I_values) |-> arctan2_deg100(Q_values[i], I_values[i])],
                 frame |-> -1, spectrum_of |-> <<>>,
                 constellation_I |-> <<>>, constellation_Q |-> <<>>]

\* update(frame), called by FuncAnimation with frames 0 .. 15, repeating
update_realtime ==
    /\ script = "16qam_realtime"
    /\ g.err = "none"
    /\ LET frame == (g.frame + 1) % Len(g.I_values)
       IN  g' = [g EXCEPT
                   !.frame = frame,
                   !.spectrum_of =
                       SubSeq(g.modulated_signal, 1, (frame + 1) * g.samples_per_symbol),
                   !.constellation_I = SubSeq(g.I_values, 1, frame + 1),
                   !.constellation_Q = SubSeq(g.Q_values, 1, frame + 1)]
    /\ UNCHANGED script

(* ----------- QAM_Explanation/plot_constellation_and_waveform.py --------- *)
I_values_new == <<-3, -1, 1, 3, -3, -1, 1, 3, -3, -1, 1, 3, -3, -1, 1, 3>>
Q_values_new == <<-3, -3, -3, -3, -1, -1, -1, -1, 1, 1, 1, 1, 3, 3, 3, 3>>

\* phase_angle_deg: "if phase_angle_deg < 0: phase_angle_deg += 360"
phase_angle_deg_of(y, x) ==
    LET d == arctan2_deg100(y, x)
    IN  IF d < 0 THEN d + 36000 ELSE d

\* the largest rail amplitude (the amplitude sliders run from -3 to 3)
AmpMax == 3

\* the module-level code of plot_constellation_and_waveform.py, with the
\* carrier frequency, the constellation point and the noise answer typed in
run_plot_constellation_and_waveform ==
    \E carrier_frequency \in Carriers,
       x_input \in -AmpMax..AmpMax, y_input \in -AmpMax..AmpMax,
       include_noise \in BOOLEAN :
        /\ script = "idle"
        /\ script' = "plot_constellation_and_waveform"
        /\ g' = [err |-> "none",
                 I_values_new |-> I_values_new, Q_values_new |-> Q_values_new,
                 decimal_values |-> [i \in 1..16 |-> i - 1],
                 carrier_frequency |-> carrier_frequency,
                 x_input |-> x_input, y_input |-> y_input,
                 include_noise |-> include_noise,
                 phase_angle_deg |-> phase_angle_deg_of(y_input, x_input),
                 frames_drawn |-> 0, highlighted_point |-> <<>>,
                 waveform |-> [cosAmp |-> 0, sinAmp |-> 0, f |-> carrier_frequency]]

\* what np.random.randn / np.random.normal draws, in standard deviations
Draws == {-1, 1}

\* noise_std = 0.1 if include_noise else 0, in hundredths
noise_std_of(include_noise) == IF include_noise THEN 10 ELSE 0

\* update(frame) of plot_constellation_and_waveform.py with the two normal
\* draws: the noisy point (hundredths) and the waveform
\* amplitude * cos(2 pi f t + phase), which is I_noisy cos - Q_noisy sin
update_constellation_and_waveform ==
    \E zI \in Draws, zQ \in Draws :
        /\ script = "plot_constellation_and_waveform"
        /\ LET noise_std == noise_std_of(g.include_noise)
               I_noisy == 100 * g.x_input + noise_std * zI
               Q_noisy == 100 * g.y_input + noise_std * zQ
           IN  g' = [g EXCEPT
                       !.frames_drawn = 1,
                       !.highlighted_point = <<I_noisy, Q_noisy>>,
                       !.waveform = [cosAmp |-> I_noisy, sinAmp |-> -Q_noisy,
                                     f |-> g.carrier_frequency]]
        /\ UNCHANGED script

(* ------ QAM_Explanation/plot_constellation_and_waveform_clickable.py ---- *)
\* the mouse positions tried are the whole data units up to MaxClick on
\* either side of the origin (ax1 spans -4.5 .. 4.5)
MaxClick == 3

ClickCoords == (0 - MaxClick) .. MaxClick

\* the mouse events tried: a click in the constellation axes at (xdata,
\* ydata), in the waveform axes, and outside both
ClickEvents ==
    [inaxes : {"ax1"}, xdata : ClickCoords, ydata : ClickCoords]
        \cup [inaxes : {"ax2", "None"}, xdata : {0}, ydata : {0}]

\* None in the integer globals current_I, current_Q, current_phase_angle_deg
\* and selected_point: a value that no coordinate, angle or index takes
NoneValue == -99

\* float('inf'), the first min_dist: above every distance of the loop
inf == 1000000

\* (click_x - x) ** 2 + (click_y - y) ** 2; np.sqrt of it is the distance
\* the loop compares, and sqrt keeps the order of these values
dist2_of(event, x, y) ==
    (event.xdata - x) * (event.xdata - x)
        + (event.ydata - y) * (event.ydata - y)

\* the loop of on_click taking a point that is as near as the best so far
RECURSIVE closest_or_equal_from(_, _, _)
closest_or_equal_from(event, i, best) ==
    IF i > Len(I_values_new) THEN best
    ELSE LET dist == dist2_of(event, I_values_new[i], Q_values_new[i])
         IN  IF dist <= best.min_dist
             THEN closest_or_equal_from(event, i + 1,
                      [min_dist |-> dist, current_I |-> I_values_new[i],
                       current_Q |-> Q_values_new[i], selected_point |-> i - 1])
             ELSE closest_or_equal_from(event, i + 1, best)

\* the loop of on_click from the i-th point on: "if dist < min_dist", where
\* min_dist starts at inf
RECURSIVE closest_from(_, _, _)
closest_from(event, i, best) ==
    IF i > Len(I_values_new) THEN best
    ELSE LET dist == dist2_of(event, I_values_new[i], Q_values_new[i])
         IN  IF dist < best.min_dist
             THEN closest_from(event, i + 1,
                      [min_dist |-> dist, current_I |-> I_values_new[i],
                       current_Q |-> Q_values_new[i], selected_point |-> i - 1])
             ELSE closest_from(event, i + 1, best)

\* the module-level code of plot_constellation_and_waveform_clickable.py,
\* with the carrier frequency and the noise answer typed in
run_clickable ==
    \E carrier_frequency \in Carriers, include_noise \in BOOLEAN :
        /\ script = "idle"
        /\ script' = "plot_constellation_and_waveform_clickable"
        /\ g' = [err |-> "none",
                 carrier_frequency |-> carrier_frequency,
                 include_noise |-> include_noise,
                 selected_point |-> NoneValue,
                 current_I |-> NoneValue, current_Q |-> NoneValue,
                 current_phase_angle_deg |-> NoneValue,
                 event |-> [inaxes |-> "None", xdata |-> 0, ydata |-> 0],
                 highlighted_point |-> <<>>,
                 waveform |-> [amplitude2 |-> 0, phase_deg |-> NoneValue,
                               f |-> carrier_frequency]]

\* on_click(event): the mouse event is delivered
on_click ==
    \E event \in ClickEvents :
        /\ script = "plot_constellation_and_waveform_clickable"
        /\ g' = IF event.inaxes = "ax1"
                THEN LET best == closest_from(event, 1,
                                     [min_dist |-> inf, current_I |-> g.current_I,
                                      current_Q |-> g.current_Q,
                                      selected_point |-> NoneValue])
                     IN  [g EXCEPT
                            !.event = event,
                            !.current_I = best.current_I,
                            !.current_Q = best.current_Q,
                            !.selected_point = best.selected_point,
                            !.current_phase_angle_deg =
                                phase_angle_deg_of(best.current_Q, best.current_I)]
                ELSE [g EXCEPT !.event = event]
        /\ UNCHANGED script

\* update(frame) with the two normal draws: the noisy point (hundredths) and
\* the waveform amplitude * cos(2 pi f t + radians(current_phase_angle_deg)),
\* kept by the square of its amplitude, its phase and its frequency
update_clickable ==
    \E zI \in Draws, zQ \in Draws :
        /\ script = "plot_constellation_and_waveform_clickable"
        /\ g.current_I # NoneValue /\ g.current_Q # NoneValue
        /\ LET noise_std == noise_std_of(g.include_noise)
               I_noisy == 100 * g.current_I + noise_std * zI
               Q_noisy == 100 * g.current_Q + noise_std * zQ
           IN  g' = [g EXCEPT
                       !.highlighted_point = <<I_noisy, Q_noisy>>,
                       !.waveform =
                           [amplitude2 |-> I_noisy * I_noisy + Q_noisy * Q_noisy,
                            phase_deg |-> g.current_phase_angle_deg,
                            f |-> g.carrier_frequency]]
        /\ UNCHANGED script

(* ------------- QAM_Explanation/plot_oscilloscope_waveforms.py ----------- *)
I_values_new_osc == <<-3, -1, 1, 3, -3, -1, 1, 3, -3, -1, 1, 3, -3, -1, 1, 3>>
Q_values_new_osc == <<-3, -3, -3, -3, -1, -1, -1, -1, 1, 1, 1, 1, 3, 3, 3, 3>>

\* format(symbol, '04b')
format_04b(symbol) ==
    <<(symbol \div 8) % 2, (symbol \div 4) % 2, (symbol \div 2) % 2, symbol % 2>>

\* the tables and the per-symbol annotations of plot_oscilloscope_waveforms.py
run_plot_oscilloscope_waveforms ==
    /\ script = "idle"
    /\ script' = "plot_oscilloscope_waveforms"
    /\ g' = [err |-> "none",
             symbols |-> [i \in 1..16 |-> i - 1],
             I_values_new |-> I_values_new_osc, Q_values_new |-> Q_values_new_osc,
             bit_values |-> [i \in 1..16 |-> format_04b(i - 1)],
             amplitude_squared |->
                 [i \in 1..16 |-> I_values_new_osc[i] * I_values_new_osc[i]
                                  + Q_values_new_osc[i] * Q_values_new_osc[i]],
             phase_angle |->
                 [i \in 1..16 |-> arctan2_deg100(Q_values_new_osc[i], I_values_new_osc[i])]]

(* --------- QAM_Explanation/qam_updated_multigraph_animation.py ---------- *)
\* qam_modulate: the constellation X + 1j * Y, kept as <<X, Y>> pairs
qam_modulate(I_values, Q_values) ==
    LET XY == meshgrid_flatten(I_values, Q_values)
    IN  [k \in 1..Len(XY.X) |-> <<XY.X[k], XY.Y[k]>>]

RECURSIVE SumSq(_)
SumSq(x) == IF x = <<>> THEN 0 ELSE Head(x) * Head(x) + SumSq(Tail(x))

\* np.mean(np.abs(x) ** 2) as a fraction
MeanSq(x) == Frac(SumSq(x), Len(x))

\* a float result: a number, or numpy's nan / inf
Num(v) == [kind |-> "num", val |-> v]
NaN == [kind |-> "nan", val |-> 0]
Inf == [kind |-> "inf", val |-> 0]

\* calculate_evm with the zero-RMS guard left out: numpy divides by zero
calculate_evm_unguarded(signal, ideal_signal) ==
    IF Len(ideal_signal) = 0 THEN NaN
    ELSE LET error == [n \in 1..Len(signal) |-> signal[n] - ideal_signal[n]]
             ms_error  == MeanSq(error)
             ms_signal == MeanSq(ideal_signal)
         IN  IF ms_signal[1] = 0
             THEN IF ms_error[1] = 0 THEN NaN ELSE Inf
             ELSE Num(ISqrt((10000 * ms_error[1] * ms_signal[2])
                            \div (ms_error[2] * ms_signal[1])))

\* calculate_evm with the error taken as signal + ideal_signal
calculate_evm_summed(signal, ideal_signal) ==
    IF Len(ideal_signal) = 0 THEN NaN
    ELSE LET error == [n \in 1..Len(signal) |-> signal[n] + ideal_signal[n]]
             ms_error  == MeanSq(error)
             ms_signal == MeanSq(ideal_signal)
         IN  IF ms_signal[1] # 0
             THEN Num(ISqrt((10000 * ms_error[1] * ms_signal[2])
                            \div (ms_error[2] * ms_signal[1])))
             ELSE Num(0)

\* calculate_evm(signal, ideal_signal), in whole percent (rounded down);
\* np.mean of an empty array is nan
calculate_evm(signal, ideal_signal) ==
    IF Len(ideal_signal) = 0 THEN NaN
    ELSE LET error == [n \in 1..Len(signal) |-> signal[n] - ideal_signal[n]]
             ms_error  == MeanSq(error)
             ms_signal == MeanSq(ideal_signal)
         IN  IF ms_signal[1] # 0
             THEN Num(ISqrt((10000 * ms_error[1] * ms_signal[2])
                            \div (ms_error[2] * ms_signal[1])))
             ELSE Num(0)

\* the values a sample of a signal takes in the calls of calculate_evm below
SampleValues == {-1, 0, 1}

\* a call of calculate_evm(signal, ideal_signal)
call_calculate_evm ==
    \E n \in 0..MaxSamples :
        \E signal \in [1..n -> SampleValues], ideal_signal \in [1..n -> SampleValues] :
            /\ script = "idle"
            /\ script' = "calculate_evm"
            /\ g' = [err |-> "none", signal |-> signal, ideal_signal |-> ideal_signal,
                     evm |-> calculate_evm(signal, ideal_signal)]

\* scipy.special.erfc(np.sqrt(x)) in units of 1e-4 (rounded down), x >= 0 a
\* number or inf: 1 at 0, 0 at inf, below 1e-4 from x = 10 on, and the
\* values the amplitude and noise settings of the model lead to in between
erfc_sqrt(x) ==
    IF x = Inf THEN 0
    ELSE LET v == x.val
         IN  CASE v[1] = 0 -> 10000
               [] v[1] >= 10 * v[2] -> 0
               [] v = <<1, 10>> -> 6547
               [] v = <<1, 5>> -> 5270
               [] v = <<2, 5>> -> 3710
               [] v = <<1, 2>> -> 3173
               [] v = <<4, 5>> -> 2059
               [] v = <<9, 10>> -> 1797
               [] v = <<1, 1>> -> 1572
               [] v = <<13, 10>> -> 1068
               [] v = <<3, 2>> -> 832
               [] v = <<9, 5>> -> 577
               [] v = <<2, 1>> -> 455
               [] v = <<5, 2>> -> 253
               [] v = <<3, 1>> -> 143
               [] v = <<4, 1>> -> 46
               [] v = <<9, 2>> -> 26
               [] v = <<5, 1>> -> 15
               [] v = <<6, 1>> -> 5
               [] v = <<13, 2>> -> 3
               [] v = <<15, 2>> -> 1
               [] v = <<9, 1>> -> 0

\* 1 - 1/np.sqrt(M) in units of 1e-4
one_minus_inv_sqrt(M) == 10000 - ISqrt(100000000 \div M)

\* np.log2(M) for a power of two
RECURSIVE log2(_)
log2(M) == IF M <= 1 THEN 0 ELSE 1 + log2(M \div 2)

\* a value in dB, kept by the power ratio it stands for: 10 * log10(ratio),
\* ratio a number (0 for -inf dB) or inf
dB(ratio) == [db_of |-> ratio]

\* calculate_ber(snr_db, M), in units of 1e-4 (rounded down):
\* snr = 10**(snr_db/10);
\* ber = 4 * (1 - 1/sqrt(M)) * erfc(sqrt(3*snr/(2*(M-1)))) / log2(M)
calculate_ber(snr_db, M) ==
    LET snr == snr_db.db_of
        x   == IF snr = Inf THEN Inf
               ELSE Num(Frac(3 * snr.val[1], 2 * (M - 1) * snr.val[2]))
    IN  (4 * one_minus_inv_sqrt(M) * erfc_sqrt(x)) \div (log2(M) * 10000)

\* snr_db of update_waveforms: 20 * log10(amplitude / sNoise.val) when the
\* noise level (in hundredths) is above 0, else inf; 20 * log10(r) is
\* 10 * log10(r * r), and np.log10(0) is -inf
snr_db_of(A, B, noise) ==
    IF noise > 0
    THEN dB(Num(Frac(10000 * (A * A + B * B), noise * noise)))
    ELSE dB(Inf)

\* the settings of the noise slider tried: 0, its initial 0.05, and 1
NoiseLevels == {0, 5, 100}

\* sin and cos of 2 * pi * frequency * t at t = 0, 1/4, 1/2, 3/4: the waveforms
\* are kept at these quarter-period samples, where both are exactly 0, 1 or -1
QuarterSin == <<0, 1, 0, -1>>
QuarterCos == <<1, 0, -1, 0>>

\* what update_waveforms(A, B) displays
update_waveforms(A, B) ==
    LET sine_wave   == [n \in 1..4 |-> A * QuarterSin[n]]
        cosine_wave == [n \in 1..4 |-> B * QuarterCos[n]]
        resultant_waveform == [n \in 1..4 |-> sine_wave[n] + cosine_wave[n]]
    IN  [line1 |-> sine_wave, line2 |-> cosine_wave, line3 |-> resultant_waveform,
         highlighted_point |-> <<B, A>>,
         evm |-> calculate_evm(resultant_waveform, resultant_waveform),
         amplitude |-> Amp100(A, B),
         phase |-> arctan2_deg100(A, B)]

\* the module-level code of qam_updated_multigraph_animation.py: 16-QAM, both
\* amplitude sliders at 1, the noise slider at 0.05, then update_plot(None)
run_multigraph ==
    /\ script = "idle"
    /\ script' = "qam_updated_multigraph_animation"
    /\ g' = [err |-> "none", M |-> 16,
             qam_signal |-> qam_modulate(L16, L16),
             binary_values |-> [i \in 1..16 |-> format_04b(i - 1)],
             sAmp1 |-> 1, sAmp2 |-> 1, A |-> 1, B |-> 1,
             sNoise |-> 5,
             shown |-> update_waveforms(1, 1),
             snr_db |-> snr_db_of(1, 1, 5),
             ber |-> calculate_ber(snr_db_of(1, 1, 5), 16)]

\* an amplitude slider is moved: update_plot(val) reads both sliders
update_plot ==
    \E val1 \in -AmpMax..AmpMax, val2 \in -AmpMax..AmpMax :
        /\ script = "qam_updated_multigraph_animation"
        /\ val1 = g.sAmp1 \/ val2 = g.sAmp2
        /\ <<val1, val2>> # <<g.sAmp1, g.sAmp2>>
        /\ g' = [g EXCEPT !.sAmp1 = val1, !.sAmp2 = val2,
                          !.A = val1, !.B = val2,
                          !.shown = update_waveforms(val1, val2),
                          !.snr_db = snr_db_of(val1, val2, g.sNoise),
                          !.ber = calculate_ber(snr_db_of(val1, val2, g.sNoise), g.M)]
        /\ UNCHANGED script

\* the noise slider is moved: it has no callback, only sNoise.val changes
move_noise_slider ==
    \E val \in NoiseLevels :
        /\ script = "qam_updated_multigraph_animation"
        /\ val # g.sNoise
        /\ g' = [g EXCEPT !.sNoise = val]
        /\ UNCHANGED script

\* f"{i:0{width}b}"
format_0b(i, width) == [k \in 1..width |-> (i \div (2 ^ (width - k))) % 2]

\* the labels of the modulation radio buttons
ModulationLabels == {"2-BPSK", "4-QPSK", "16-QAM"}

\* int(label.split('-')[0])
order_of_label(label) ==
    CASE label = "2-BPSK" -> 2
      [] label = "4-QPSK" -> 4
      [] label = "16-QAM" -> 16

\* rails_of_order with both rails of BPSK at [-1, 1]
rails_of_order_square(M) ==
    CASE M = 2 -> [I |-> <<-1, 1>>, Q |-> <<-1, 1>>]
      [] M = 4 -> [I |-> <<-1, 1>>, Q |-> <<-1, 1>>]
      [] OTHER -> [I |-> L16, Q |-> L16]

\* the I and Q rails change_modulation picks for the order M
rails_of_order(M) ==
    CASE M = 2 -> [I |-> <<-1, 1>>, Q |-> <<0>>]
      [] M = 4 -> [I |-> <<-1, 1>>, Q |-> <<-1, 1>>]
      [] OTHER -> [I |-> L16, Q |-> L16]

\* change_modulation(label) of qam_updated_multigraph_animation.py: the new
\* order, labels and constellation; for QPSK the sine amplitude and its
\* slider go to 0; then update_plot(None)
change_modulation_to(label) ==
    LET M  == order_of_label(label)
        r  == rails_of_order(M)
        A1 == IF M = 4 THEN 0 ELSE g.sAmp1
    IN  /\ script = "qam_updated_multigraph_animation"
        /\ g' = [g EXCEPT
                    !.M = M,
                    !.binary_values = [i \in 1..M |-> format_0b(i - 1, log2(M))],
                    !.qam_signal = qam_modulate(r.I, r.Q),
                    !.sAmp1 = A1,
                    !.A = A1,
                    !.B = g.sAmp2,
                    !.shown = update_waveforms(A1, g.sAmp2),
                    !.snr_db = snr_db_of(A1, g.sAmp2, g.sNoise),
                    !.ber = calculate_ber(snr_db_of(A1, g.sAmp2, g.sNoise), M)]
        /\ UNCHANGED script

\* a modulation radio button is clicked
change_modulation ==
    \E label \in ModulationLabels : change_modulation_to(label)

(* ------------------------ 16qam_realtime_w_noise.py --------------------- *)
F_LO == 20
F_BB == 2
sample_rate_w_noise == 1000
duration_w_noise == 8

\* noise_amplitude left at 0.05 whatever the answer
noise_amplitude_always(user_input) == 5

\* noise_amplitude, in hundredths: 0.05 after "yes" or "y", else 0.0
noise_amplitude_of(user_input) ==
    IF user_input \in {"yes", "y"} THEN 5 ELSE 0

\* noise_amplitude * np.random.randn(len): sample n (from 0) gets the draw
\* z[n % 2], one draw for the even and one for the odd samples
noise_at(noise_amplitude, z, n) == noise_amplitude * z[(n % 2) + 1]

\* modulated_signal of 16qam_realtime_w_noise.py: computed once at module
\* level from the script's constants and never assigned again
modulated_signal_w_noise ==
    LET t == [n \in 1..(duration_w_noise * sample_rate_w_noise) |->
                 Frac(n - 1, sample_rate_w_noise)]
        samples_per_symbol == sample_rate_w_noise \div F_BB
        I_signal == np_repeat(np_tile(L16, 4), samples_per_symbol)
        Q_signal == np_repeat(np_repeat(L16, 4), samples_per_symbol)
        modulated_I == CosWave(I_signal, F_LO, t)
        modulated_Q == SinWave(Q_signal, F_LO, t)
    IN  AddWaves(modulated_I, modulated_Q)

\* the module-level code of 16qam_realtime_w_noise.py, up to the animation
run_16qam_realtime_w_noise ==
    \E user_input \in {"yes", "y", "no", ""} :
        /\ script = "idle"
        /\ script' = "16qam_realtime_w_noise"
        /\ g' = [err |-> "none", user_input |-> user_input,
                 noise_amplitude |-> noise_amplitude_of(user_input),
                 I_values |-> np_tile(L16, 4), Q_values |-> np_repeat(L16, 4),
                 samples_per_symbol |->
                     sample_rate_w_noise \div F_BB,
                 show_circles_lines |-> TRUE,
                 frame |-> -1, noise_I |-> <<0, 0>>, noise_Q |-> <<0, 0>>,
                 noisy_I |-> <<>>, noisy_Q |-> <<>>]

\* noisy_modulated_signal of update(): (modulated_I + noise_I) +
\* (modulated_Q + noise_Q), each sample kept as the wave plus the noise in
\* hundredths; the noise arrays are kept by their two draws
noisy_modulated_signal_of(modulated_signal, noise_I, noise_Q) ==
    [n \in 1..Len(modulated_signal) |->
        [wave  |-> modulated_signal[n],
         noise |-> noise_I[((n - 1) % 2) + 1] + noise_Q[((n - 1) % 2) + 1]]]

\* update(frame) with the noise drawn: the noise arrays (hundredths, by their
\* even-sample and odd-sample value) and the noisy constellation points
\* (hundredths) of the symbols 0 .. frame that it plots
update_w_noise_of(self, frame, zI, zQ) ==
    LET sps == self.samples_per_symbol
    IN  [self EXCEPT
            !.noise_I = [k \in 1..2 |-> noise_at(self.noise_amplitude, zI, k - 1)],
            !.noise_Q = [k \in 1..2 |-> noise_at(self.noise_amplitude, zQ, k - 1)],
            !.noisy_I =
                [i \in 1..(frame + 1) |->
                    100 * self.I_values[i]
                    + noise_at(self.noise_amplitude, zI, (i - 1) * sps)],
            !.noisy_Q =
                [i \in 1..(frame + 1) |->
                    100 * self.Q_values[i]
                    + noise_at(self.noise_amplitude, zQ, (i - 1) * sps)]]

\* update(frame), called by FuncAnimation with frames 0 .. 15 once
\* (repeat=False)
update_realtime_w_noise ==
    \E zI \in [1..2 -> Draws], zQ \in [1..2 -> Draws] :
        /\ script = "16qam_realtime_w_noise"
        /\ g.frame + 1 < Len(g.I_values)
        /\ g' = [update_w_noise_of(g, g.frame + 1, zI, zQ)
                 EXCEPT !.frame = g.frame + 1]
        /\ UNCHANGED script

\* toggle_circles_lines(event): the flag is flipped and update() is called
\* for the last frame
toggle_circles_lines ==
    \E zI \in [1..2 -> Draws], zQ \in [1..2 -> Draws] :
        /\ script = "16qam_realtime_w_noise"
        /\ g' = update_w_noise_of(
                    [g EXCEPT !.show_circles_lines = ~g.show_circles_lines],
                    Len(g.I_values) - 1, zI, zQ)
        /\ UNCHANGED script

(* -------------------------------- 16qam.py ------------------------------ *)
\* a - b of two waves over the same time array
SubWaves(a, b) ==
    [n \in 1..Len(a) |->
        [cosAmp |-> a[n].cosAmp - b[n].cosAmp,
         sinAmp |-> a[n].sinAmp - b[n].sinAmp,
         cycles |-> a[n].cycles]]

\* the modulator of 16qam.py for given streams and rates:
\* duration = num_symbols / symbol_rate; t = np.arange(0, duration,
\* 1/sample_rate); modulated_signal = modulated_I - modulated_Q
modulate_16qam(I_values, Q_values, f_carrier, sample_rate, symbol_rate) ==
    IF symbol_rate = 0 \/ sample_rate = 0
    THEN [err |-> "ZeroDivisionError", t |-> <<>>, modulated_signal |-> <<>>]
    ELSE
    LET num_symbols        == Len(I_values)
        len_t              == (num_symbols * sample_rate + symbol_rate - 1)
                                  \div symbol_rate
        t                  == [n \in 1..len_t |-> Frac(n - 1, sample_rate)]
        samples_per_symbol == sample_rate \div symbol_rate
        I_signal == np_repeat(I_values, samples_per_symbol)
        Q_signal == np_repeat(Q_values, samples_per_symbol)
    IN  IF Len(t) # Len(I_signal)
        THEN [err |-> "ValueError", t |-> t, modulated_signal |-> <<>>]
        ELSE [err |-> "none", t |-> t,
              modulated_signal |-> SubWaves(CosWave(I_signal, f_carrier, t),
                                            SinWave(Q_signal, f_carrier, t))]

\* 16qam.py run with the random symbols drawn, for given parameters
run_16qam ==
    \E s \in Streams, f \in Carriers, sr \in 0..MaxRate, symr \in 0..MaxRate :
        LET I_values == [k \in 1..Len(s) |-> s[k][1]]
            Q_values == [k \in 1..Len(s) |-> s[k][2]]
            r == modulate_16qam(I_values, Q_values, f, sr, symr)
        IN  /\ script = "idle"
            /\ script' = "16qam"
            /\ g' = [err |-> r.err, I_values |-> I_values, Q_values |-> Q_values,
                     f_carrier |-> f, sample_rate |-> sr, symbol_rate |-> symr,
                     t |-> r.t, modulated_signal |-> r.modulated_signal]

(* ----------------------------- bpsk_realtime.py ------------------------- *)
f_carrier_bpsk == 8
sample_rate_bpsk == 10000
symbol_rate_bpsk == 4
num_symbols_bpsk == 40

\* the outcomes of np.random.choice([-1, 1], size=num_symbols) tried:
\* alternating symbols from -1, and from 1
symbols_bpsk ==
    {[i \in 1..num_symbols_bpsk |-> IF i % 2 = 1 THEN -1 ELSE 1],
     [i \in 1..num_symbols_bpsk |-> IF i % 2 = 1 THEN 1 ELSE -1]}

\* the module-level code of bpsk_realtime.py and init(): t and
\* modulated_signal have duration * sample_rate samples and are kept by that
\* number; line1 (the time-domain trace) is kept by the number of leading
\* samples of t and modulated_signal it shows, points by the symbol it shows
run_bpsk_realtime ==
    \E symbols \in symbols_bpsk :
        /\ script = "idle"
        /\ script' = "bpsk_realtime"
        /\ g' = [err |-> "none", symbols |-> symbols,
                 samples_per_symbol |-> sample_rate_bpsk \div symbol_rate_bpsk,
                 num_samples |->
                     (num_symbols_bpsk * sample_rate_bpsk) \div symbol_rate_bpsk,
                 frame |-> -1, line1 |-> 0, points |-> <<>>]

\* max(1, a)
max1(a) == IF a > 1 THEN a ELSE 1

\* update(frame), called by FuncAnimation with frames 0 .. num_symbols - 1,
\* repeating: line1 shows t[:idx] with idx = max(1, frame *
\* samples_per_symbol), points shows symbols[frame]
update_bpsk_realtime ==
    /\ script = "bpsk_realtime"
    /\ LET frame == (g.frame + 1) % num_symbols_bpsk
           idx   == max1(frame * g.samples_per_symbol)
       IN  g' = [g EXCEPT
                   !.frame = frame,
                   !.line1 = IF idx < g.num_samples THEN idx ELSE g.num_samples,
                   !.points = <<g.symbols[frame + 1], 0>>]
    /\ UNCHANGED script

(* -------- QAM_Explanation/qam_updated_multigraph_animation_2.py --------- *)
\* QAMSimulation: one object, its attributes are the fields of g

\* self.symbol_duration and self.max_trail_length
symbol_duration == 40
max_trail_length == 100

\* the number of animation frames and of user interface events followed
MaxFrames == 1
MaxEvents == 3

\* the outcomes of np.random.shuffle(list(range(16))) tried: ascending and
\* descending order
Shuffles == {[i \in 1..16 |-> i - 1], [i \in 1..16 |-> 16 - i]}

\* the amplitude slider settings the user picks
AmpSettings == {0, 1}

RECURSIVE extend_bits(_)
extend_bits(all_symbols) ==
    IF all_symbols = <<>> THEN <<>>
    ELSE format_04b(Head(all_symbols)) \o extend_bits(Tail(all_symbols))

\* generate_bit_sequence(), for the shuffle outcome all_symbols
generate_bit_sequence(all_symbols) == extend_bits(all_symbols)

\* int(''.join(map(str, bits)), 2)
RECURSIVE int_base2(_)
int_base2(bits) ==
    IF bits = <<>> THEN 0
    ELSE 2 * int_base2(SubSeq(bits, 1, Len(bits) - 1)) + bits[Len(bits)]

\* calculate_ber(self, snr_db): the order is read from self.M
QAMSimulation_calculate_ber(self, snr_db) == calculate_ber(snr_db, self.M)

\* update_plot(self, val): A and B from the sliders, then update_waveforms()
\* with the noise slider's value and self.M
QAMSimulation_update_plot_of(self) ==
    LET s1 == [self EXCEPT !.A = self.sAmp1, !.B = self.sAmp2]
        snr_db == snr_db_of(s1.A, s1.B, s1.sNoise)
    IN  [s1 EXCEPT !.snr_db = snr_db,
                   !.ber = QAMSimulation_calculate_ber(s1, snr_db),
                   !.highlighted_point = <<<<s1.B, s1.A>>>>]

\* __init__: the state of a new QAMSimulation whose shuffle gave all_symbols
QAMSimulation_init(all_symbols) ==
    QAMSimulation_update_plot_of(
        [err |-> "none", M |-> 16,
         qam_signal |-> qam_modulate(L16, L16),
         binary_values |-> [i \in 1..16 |-> format_0b(i - 1, log2(16))],
         A |-> 1, B |-> 1, sAmp1 |-> 1, sAmp2 |-> 1, sNoise |-> 5,
         snr_db |-> dB(Inf), ber |-> 0,
         trail_points |-> <<>>,
         streaming |-> FALSE,
         bit_sequence |-> generate_bit_sequence(all_symbols),
         current_bit_index |-> 0,
         frame_counter |-> 0,
         highlighted_point |-> <<>>,
         bit_text |-> "",
         frame |-> 0, events |-> 0])

\* an amplitude slider is moved: on_changed calls update_plot
QAMSimulation_update_plot ==
    /\ script = "QAMSimulation"
    /\ \E val1 \in AmpSettings \cup {g.sAmp1}, val2 \in AmpSettings \cup {g.sAmp2} :
        /\ val1 = g.sAmp1 \/ val2 = g.sAmp2
        /\ <<val1, val2>> # <<g.sAmp1, g.sAmp2>>
        /\ g.events < MaxEvents
        /\ g' = QAMSimulation_update_plot_of(
                    [g EXCEPT !.sAmp1 = val1, !.sAmp2 = val2,
                              !.events = g.events + 1])
        /\ UNCHANGED script

\* the noise slider is moved: no callback, only sNoise.val changes
QAMSimulation_move_noise_slider ==
    \E val \in NoiseLevels :
        /\ script = "QAMSimulation"
        /\ val # g.sNoise
        /\ g.events < MaxEvents
        /\ g' = [g EXCEPT !.sNoise = val, !.events = g.events + 1]
        /\ UNCHANGED script

\* change_modulation(self, label)
QAMSimulation_change_modulation_to(label) ==
    LET M  == order_of_label(label)
        r  == rails_of_order(M)
        A1 == IF M = 4 THEN 0 ELSE g.sAmp1
    IN  /\ script = "QAMSimulation"
        /\ g.events < MaxEvents
        /\ g' = QAMSimulation_update_plot_of(
                    [g EXCEPT
                        !.M = M,
                        !.binary_values =
                            [i \in 1..M |-> format_0b(i - 1, log2(M))],
                        !.qam_signal = qam_modulate(r.I, r.Q),
                        !.sAmp1 = A1,
                        !.events = g.events + 1])
        /\ UNCHANGED script

\* a modulation radio button is clicked
QAMSimulation_change_modulation ==
    \E label \in ModulationLabels : QAMSimulation_change_modulation_to(label)

\* toggle_stream(self, event)
QAMSimulation_toggle_stream ==
    /\ script = "QAMSimulation"
    /\ g.events < MaxEvents
    /\ g' = IF ~g.streaming
            THEN [g EXCEPT !.streaming = TRUE,
                           !.current_bit_index = 0,
                           !.frame_counter = 0,
                           !.events = g.events + 1]
            ELSE [g EXCEPT !.streaming = FALSE,
                           !.highlighted_point = <<>>,
                           !.bit_text = "",
                           !.events = g.events + 1]
    /\ UNCHANGED script

\* the text animate writes for the group starting at current_bit_index
bit_text_at(current_bit_index) == "Bits@" \o ToString(current_bit_index)

\* the index get_symbol_for_bits computes for the current group of four bits
index_of_current_bits(self) ==
    int_base2(SubSeq(self.bit_sequence, self.current_bit_index + 1,
                     self.current_bit_index + 4))

\* select_symbol advancing the bit index by a whole byte
select_symbol_by_byte(self) ==
    LET symbol == self.qam_signal[index_of_current_bits(self) + 1]
    IN  [QAMSimulation_update_plot_of(
            [self EXCEPT !.sAmp2 = symbol[1], !.sAmp1 = symbol[2]])
         EXCEPT !.current_bit_index =
                    (self.current_bit_index + 8) % Len(self.bit_sequence)]

\* the part of animate that runs when streaming and frame_counter == 0, after
\* bit_text is set: the symbol of the current bits goes to the sliders
\* (update_plot), and the bit index advances
select_symbol(self) ==
    LET symbol == self.qam_signal[index_of_current_bits(self) + 1]
    IN  [QAMSimulation_update_plot_of(
            [self EXCEPT !.sAmp2 = symbol[1], !.sAmp1 = symbol[2]])
         EXCEPT !.current_bit_index =
                    (self.current_bit_index + 4) % Len(self.bit_sequence)]

\* append_trail keeping the first max_trail_length points
append_trail_keep_first(self, z_i, z_q) ==
    LET noisy_I == 100 * self.B + self.sNoise * z_i
        noisy_Q == 100 * self.A + self.sNoise * z_q
        tp == Append(self.trail_points, <<noisy_I, noisy_Q>>)
    IN  [self EXCEPT !.trail_points =
            IF Len(tp) > max_trail_length
            THEN SubSeq(tp, 1, max_trail_length)
            ELSE tp]

\* the rest of animate: one noisy point, in hundredths, is appended to the
\* trail, which keeps its last max_trail_length points
append_trail(self, z_i, z_q) ==
    LET noisy_I == 100 * self.B + self.sNoise * z_i
        noisy_Q == 100 * self.A + self.sNoise * z_q
        tp == Append(self.trail_points, <<noisy_I, noisy_Q>>)
    IN  [self EXCEPT !.trail_points =
            IF Len(tp) > max_trail_length
            THEN SubSeq(tp, Len(tp) - max_trail_length + 1, Len(tp))
            ELSE tp]

\* animate(self, frame) with the two normal draws z_i and z_q; an IndexError
\* of get_symbol_for_bits leaves the callback after bit_text was set
QAMSimulation_animate_of(self, z_i, z_q) ==
    IF self.streaming /\ self.frame_counter = 0
       /\ index_of_current_bits(self) >= Len(self.qam_signal)
    THEN [self EXCEPT !.bit_text = bit_text_at(self.current_bit_index),
                      !.err = "IndexError"]
    ELSE LET s1 == IF self.streaming /\ self.frame_counter = 0
                   THEN select_symbol(
                          [self EXCEPT !.bit_text =
                              bit_text_at(self.current_bit_index)])
                   ELSE self
             s2 == IF self.streaming
                   THEN [s1 EXCEPT !.frame_counter =
                           (s1.frame_counter + 1) % symbol_duration]
                   ELSE s1
         IN  append_trail(s2, z_i, z_q)

\* the animation timer calls animate(frame)
QAMSimulation_animate ==
    \E z_i \in Draws, z_q \in Draws :
        /\ script = "QAMSimulation"
        /\ g.frame < MaxFrames
        /\ g' = QAMSimulation_animate_of([g EXCEPT !.frame = g.frame + 1],
                                         z_i, z_q)
        /\ UNCHANGED script

\* the constellation points the user clicks: the first and the last
ClickedPoints(qam_signal) == {1, Len(qam_signal)}

\* on_pick(self, event) for the point event.ind[0]
QAMSimulation_on_pick_of(self, index) ==
    LET point == self.qam_signal[index]
    IN  QAMSimulation_update_plot_of(
            [self EXCEPT !.sAmp2 = point[1], !.sAmp1 = point[2]])

\* on_click(self, event) for a click that hits the point index
QAMSimulation_on_click_of(self, index) ==
    IF ~self.streaming
    THEN LET point == self.qam_signal[index]
         IN  [QAMSimulation_update_plot_of(
                 [self EXCEPT !.sAmp2 = point[1], !.sAmp1 = point[2]])
              EXCEPT !.highlighted_point = <<<<point[1], point[2]>>>>]
    ELSE self

\* a mouse click on a constellation point: the canvas delivers the
\* pick_event to on_pick and the button_press_event to on_click
QAMSimulation_click_point ==
    /\ script = "QAMSimulation"
    /\ \E index \in ClickedPoints(g.qam_signal) :
        /\ g.events < MaxEvents
        /\ g' = QAMSimulation_on_click_of(
                    QAMSimulation_on_pick_of(
                        [g EXCEPT !.events = g.events + 1], index),
                    index)
        /\ UNCHANGED script

\* the number of animation frames followed when the controls are left alone
StreamFrames == 641

\* the stream of standard normal draws followed over those frames, repeated
DrawCycle == <<1, 1, -1>>

\* the n-th draw (n from 0) of that stream
draw_at(n) == DrawCycle[(n % Len(DrawCycle)) + 1]

\* before the first frame the user selects a modulation and starts or stops
\* the stream
Stream_setup ==
    /\ g.frame = 0
    /\ (QAMSimulation_change_modulation \/ QAMSimulation_toggle_stream)

\* the animation timer calls animate(frame); frame f takes draws 2f and 2f+1
Stream_animate ==
    /\ script = "QAMSimulation"
    /\ g.frame < StreamFrames
    /\ g' = QAMSimulation_animate_of([g EXCEPT !.frame = g.frame + 1],
                                     draw_at(2 * g.frame),
                                     draw_at(2 * g.frame + 1))
    /\ UNCHANGED script

(* --------------------------- specification ----------------------------- *)
Init == script = "idle" /\ g = [err |-> "none"]

\* the script (or call) ends; the next one starts from fresh globals
exit_script ==
    /\ script # "idle"
    /\ script' = "idle"
    /\ g' = [err |-> "none"]

Next ==
    \/ call_modulate_signal
    \/ run_qam_prompt
    \/ run_with_choices
    \/ run_time_domain_plot
    \/ run_16qam_realtime
    \/ update_realtime
    \/ run_plot_constellation_and_waveform
    \/ update_constellation_and_waveform
    \/ run_16qam_realtime_w_noise
    \/ run_16qam
    \/ update_realtime_w_noise
    \/ toggle_circles_lines
    \/ run_bpsk_realtime
    \/ update_bpsk_realtime
    \/ run_plot_oscilloscope_waveforms
    \/ run_multigraph
    \/ update_plot
    \/ move_noise_slider
    \/ change_modulation
    \/ call_calculate_evm
    \/ exit_script

Spec == Init /\ [][Next]_vars

\* QAMSimulation on its own: __init__ has run
SimInit ==
    /\ script = "QAMSimulation"
    /\ \E all_symbols \in Shuffles : g = QAMSimulation_init(all_symbols)

SimNext ==
    \/ QAMSimulation_update_plot
    \/ QAMSimulation_move_noise_slider
    \/ QAMSimulation_change_modulation
    \/ QAMSimulation_toggle_stream
    \/ QAMSimulation_click_point
    \/ QAMSimulation_animate

SimSpec == SimInit /\ [][SimNext]_vars

\* QAMSimulation set up before the first frame and then left to animate
StreamNext ==
    \/ Stream_setup
    \/ Stream_animate

StreamSpec == SimInit /\ [][StreamNext]_vars

\* qam_updated_multigraph_animation_2.py is started: qam_sim = QAMSimulation()
run_QAMSimulation ==
    /\ script = "idle"
    /\ script' = "QAMSimulation"
    /\ \E all_symbols \in Shuffles : g' = QAMSimulation_init(all_symbols)

\* the two scripts with modulation radio buttons, their amplitude sliders
\* and radio buttons in use
ModulationNext ==
    \/ run_multigraph
    \/ update_plot
    \/ change_modulation
    \/ run_QAMSimulation
    \/ QAMSimulation_update_plot
    \/ QAMSimulation_change_modulation
    \/ exit_script

ModulationSpec == Init /\ [][ModulationNext]_vars

\* plot_constellation_and_waveform_clickable.py on its own
ClickNext ==
    \/ run_clickable
    \/ on_click
    \/ update_clickable
    \/ exit_script

ClickSpec == Init /\ [][ClickNext]_vars

(* ------------------------------ claims --------------------------------- *)
samples_per_symbol_of(sample_rate, symbol_rate) == sample_rate \div symbol_rate

Modulated == script = "modulate_signal" /\ g.err = "none"

\* C1: prefix-consistency.  Modulating the first k symbols of a stream, with
\* the same carrier frequency, sample rate and symbol rate, gives exactly the
\* first k * samples_per_symbol samples (and time values) of modulating the
\* whole stream, for every 0 <= k <= len(stream).
C1_PrefixConsistencyCall ==
    Modulated =>
        \A k \in 0..Len(g.I) :
            LET p == modulate_signal(SubSeq(g.I, 1, k), SubSeq(g.Q, 1, k),
                                     g.f_carrier, g.sample_rate, g.symbol_rate)
                n == k * samples_per_symbol_of(g.sample_rate, g.symbol_rate)
            IN  /\ p.err = "none"
                /\ p.modulated_signal = SubSeq(g.modulated_signal, 1, n)
                /\ p.t = SubSeq(g.t, 1, n)

\* C1 in the animation of 16qam_realtime.py: the samples shown at frame f are
\* those of modulating the first f + 1 symbols alone.
C1_PrefixConsistencyRealtime ==
    (script = "16qam_realtime" /\ g.frame >= 0) =>
        LET k == g.frame + 1
            p == modulate_signal(SubSeq(g.I_values, 1, k), SubSeq(g.Q_values, 1, k),
                                 f_carrier_realtime, sample_rate_realtime,
                                 symbol_rate_realtime)
        IN  /\ p.err = "none"
            /\ p.modulated_signal = g.spectrum_of
            /\ p.t = SubSeq(g.t, 1, k * g.samples_per_symbol)

C3_ZeroOrderHold ==
    /\ Modulated =>
        LET sps == samples_per_symbol_of(g.sample_rate, g.symbol_rate)
        IN  /\ Len(g.modulated_signal) = Len(g.I) * sps
            /\ \A n \in 1..Len(g.modulated_signal) :
                   /\ g.modulated_signal[n].cosAmp = g.I[((n - 1) \div sps) + 1]
                   /\ g.modulated_signal[n].sinAmp = g.Q[((n - 1) \div sps) + 1]
    /\ (script = "16qam_realtime" /\ g.err = "none") =>
        LET sps == g.samples_per_symbol
        IN  /\ Len(g.modulated_signal) = Len(g.I_values) * sps
            /\ \A n \in 1..Len(g.modulated_signal) :
                   /\ g.I_signal[n] = g.I_values[((n - 1) \div sps) + 1]
                   /\ g.Q_signal[n] = g.Q_values[((n - 1) \div sps) + 1]
                   /\ g.modulated_signal[n].cosAmp = g.I_signal[n]
                   /\ g.modulated_signal[n].sinAmp = g.Q_signal[n]

C3_Witness ==
    /\ Modulated
    /\ Len(g.I) >= 2
    /\ samples_per_symbol_of(g.sample_rate, g.symbol_rate) >= 2
    /\ g.I[1] # g.I[2]
    /\ g.Q[1] # g.Q[2]

\* C4: signal length.  The modulated signal has exactly
\* num_symbols * samples_per_symbol samples, samples_per_symbol being
\* sample_rate / symbol_rate (floored), and the time array has the same
\* length, so the two multiply without a shape error.
\* For the 16 symbols 0..15 at sample_rate 1000 and symbol_rate 2 the length
\* is 16 * 500 = 8000.
C4_SignalLength ==
    /\ (script = "modulate_signal" /\ g.symbol_rate > 0) =>
        /\ g.err = "none"
        /\ Len(g.modulated_signal)
             = Len(g.I) * samples_per_symbol_of(g.sample_rate, g.symbol_rate)
        /\ Len(g.t) = Len(g.modulated_signal)
    /\ script = "16qam_realtime" =>
        /\ g.err = "none"
        /\ g.samples_per_symbol = 500
        /\ Len(g.I_values) = 16
        /\ Len(g.modulated_signal) = 8000
        /\ Len(g.t) = 8000

C4_Witness ==
    /\ Modulated
    /\ Len(g.I) = 2
    /\ g.sample_rate = 5
    /\ g.symbol_rate = 2
    /\ Len(g.modulated_signal) = 4
    /\ Len(g.t) = 4

\* C5 (as claimed): modulate floors sample_rate / symbol_rate and fails with
\* InvalidRateRatioError when the floor is zero (0 < sample_rate <
\* symbol_rate); it never returns the empty signal that samples_per_symbol = 0
\* gives for a non-empty stream.
C5_RateRatioValidated ==
    (/\ script = "modulate_signal"
     /\ Len(g.I) > 0
     /\ 0 < g.sample_rate
     /\ g.sample_rate < g.symbol_rate) =>
        /\ g.err = "InvalidRateRatioError"
        /\ g.modulated_signal # <<>>

IsPerfectSquare(M) == M >= 0 /\ ISqrt(M) * ISqrt(M) = M

ValidOrder(M) == M \in {2, 4} \/ (M >= 4 /\ IsPerfectSquare(M))

PointSet == {<<g.I[k], g.Q[k]>> : k \in 1..Len(g.I)}

\* C6 (as claimed): building a constellation for an order M that is neither
\* a perfect square >= 4 nor 2 or 4 fails at the call, and no constellation
\* of another, silently substituted order is produced.
C6_OrderValidated ==
    (script = "qam_prompt" /\ g.num_points > 0 /\ ~ValidOrder(g.num_points)) =>
        /\ g.err # "none"
        /\ g.I = <<>>
        /\ g.Q = <<>>

Odd(x) == x % 2 = 1

\* the points are the Cartesian product of one set of sqrt(M) amplitudes
IsSquareLattice(M) ==
    LET m == ISqrt(M)
        A == {g.I[k] : k \in 1..Len(g.I)}
    IN  /\ Len(g.I) = M
        /\ Len(g.Q) = M
        /\ Cardinality(PointSet) = M
        /\ Cardinality(A) = m
        /\ PointSet = A \X A
        /\ \A a \in A : -(m - 1) <= a /\ a <= m - 1

\* C7 (as claimed): for every perfect square M >= 4 the constellation has M
\* distinct points on a square lattice whose coordinates are odd integers in
\* -(sqrt(M)-1) .. sqrt(M)-1.
C7_OddLatticeEverySquare ==
    (script = "qam_prompt" /\ g.num_points >= 4 /\ IsPerfectSquare(g.num_points)) =>
        /\ IsSquareLattice(g.num_points)
        /\ \A k \in 1..Len(g.I) : Odd(g.I[k]) /\ Odd(g.Q[k])

\* C7 (amended): for every perfect square M >= 4 the constellation has M
\* distinct points forming the Cartesian product of one amplitude set within
\* -(sqrt(M)-1) .. sqrt(M)-1; the coordinates are odd integers exactly when
\* sqrt(M) is even (M = 4, 16, 36, 64, ...), and even integers otherwise.
C7_LatticeShape ==
    (script = "qam_prompt" /\ g.num_points >= 4 /\ IsPerfectSquare(g.num_points)) =>
        /\ IsSquareLattice(g.num_points)
        /\ \A k \in 1..Len(g.I) :
               /\ Odd(g.I[k]) <=> (ISqrt(g.num_points) % 2 = 0)
               /\ Odd(g.Q[k]) <=> (ISqrt(g.num_points) % 2 = 0)

C7_Witness ==
    /\ script = "qam_prompt"
    /\ g.num_points = 16
    /\ Len(g.I) = 16
    /\ <<-3, -3>> \in PointSet
    /\ <<3, 1>> \in PointSet

HammingDistance(a, b) == Cardinality({i \in 1..Len(a) : a[i] # b[i]})

\* one amplitude step (2 units) apart in I or in Q
LatticeAdjacent(p, q) ==
    \/ (p[1] = q[1] /\ Abs(p[2] - q[2]) = 2)
    \/ (p[2] = q[2] /\ Abs(p[1] - q[1]) = 2)

\* points[i] carries labels[i]: M distinct points, adjacent ones one bit apart
GrayLabelled(points, labels, M) ==
    /\ Len(points) = M
    /\ Len(labels) = M
    /\ Cardinality({points[i] : i \in 1..Len(points)}) = M
    /\ \A i, j \in 1..Len(points) :
           LatticeAdjacent(points[i], points[j])
               => HammingDistance(labels[i], labels[j]) = 1

ChoicePoints == [i \in 1..Len(g.I_values) |-> <<g.I_values[i], g.Q_values[i]>>]

CanonicalTable ==
    LET L == <<-3, -1, 1, 3>>
    IN  [k \in 0..15 |-> <<L[(k % 4) + 1], L[(k \div 4) + 1]>>]

TableOf(I, Q) == [k \in 0..(Len(I) - 1) |-> <<I[k + 1], Q[k + 1]>>]

\* the tile/repeat construction, the literal I/Q tables and the
\* meshgrid-then-flatten constructions give the canonical table
C8_ListedConstructions ==
    /\ script = "16qam_realtime" => TableOf(g.I_values, g.Q_values) = CanonicalTable
    /\ (script = "with_choices" /\ g.plotted) =>
           TableOf(g.I_values, g.Q_values) = CanonicalTable
    /\ script = "plot_constellation_and_waveform" =>
           TableOf(g.I_values_new, g.Q_values_new) = CanonicalTable
    /\ script = "plot_oscilloscope_waveforms" =>
           TableOf(g.I_values_new, g.Q_values_new) = CanonicalTable
    /\ (script = "qam_prompt" /\ g.num_points = 16) =>
           TableOf(g.I, g.Q) = CanonicalTable
    /\ (script = "qam_updated_multigraph_animation" /\ g.M = 16) =>
           [k \in 0..(Len(g.qam_signal) - 1) |-> g.qam_signal[k + 1]] = CanonicalTable

\* C8 (as claimed): the 16-QAM index-to-point table is the same across the
\* source's constructions: symbol k is (L[k mod 4], L[k div 4]), symbol 0 is
\* (-3, -3).
C8_OneTableEverywhere ==
    /\ C8_ListedConstructions
    /\ script = "time_domain_plot" => g.symbol_map = CanonicalTable

\* C8 (amended): the tile/repeat construction, the literal I/Q tables and the
\* meshgrid-then-flatten constructions all produce the table k -> (L[k mod 4],
\* L[k div 4]), L = (-3, -1, 1, 3); the symbol_map of 16-QAM_time_domain_plot.py
\* is a different table, k -> (G[k div 4], G[k mod 4]) with G = (-3, -1, 3, 1).
\* Symbol 0 is (-3, -3) in both.
C8_CanonicalOrdering ==
    /\ C8_ListedConstructions
    /\ script = "time_domain_plot" =>
           LET G == <<-3, -1, 3, 1>>
           IN  /\ g.symbol_map = [k \in 0..15 |-> <<G[(k \div 4) + 1], G[(k % 4) + 1]>>]
               /\ g.symbol_map[0] = <<-3, -3>>

C8_Witness ==
    /\ script = "16qam_realtime"
    /\ g.I_values[2] = -1
    /\ g.Q_values[2] = -3
    /\ g.I_values[5] = -3
    /\ g.Q_values[5] = -1

\* C9 (as claimed): every reported amplitude is >= 0 and every reported phase
\* lies in [0, 360) degrees; a point with Q < 0 is never reported with a
\* negative angle ((-3,-3) is reported as 225 degrees).
C9_PhaseRange ==
    /\ script = "plot_constellation_and_waveform" =>
           0 <= g.phase_angle_deg /\ g.phase_angle_deg < 36000
    /\ script = "qam_updated_multigraph_animation" =>
           /\ g.shown.amplitude >= 0
           /\ 0 <= g.shown.phase /\ g.shown.phase < 36000
    /\ script = "plot_oscilloscope_waveforms" =>
           \A i \in 1..16 : 0 <= g.phase_angle[i] /\ g.phase_angle[i] < 36000
    /\ script = "16qam_realtime" =>
           \A i \in 1..16 :
               /\ g.amplitudes[i] >= 0
               /\ 0 <= g.phases_deg[i] /\ g.phases_deg[i] < 36000

\* C10: EVM zero-RMS guard.  calculate_evm(actual, ideal) returns 0 (no nan,
\* no inf, no failure) whenever ideal has zero RMS, for any actual signal; so
\* with both amplitudes at 0 the displayed EVM is 0.
C10_EvmZeroGuard ==
    /\ (/\ script = "calculate_evm"
        /\ Len(g.ideal_signal) > 0
        /\ \A n \in 1..Len(g.ideal_signal) : g.ideal_signal[n] = 0) =>
           g.evm = Num(0) /\ g.err = "none"
    /\ (script = "qam_updated_multigraph_animation" /\ g.A = 0 /\ g.B = 0) =>
           g.shown.evm = Num(0)

C10_Witness ==
    /\ script = "calculate_evm"
    /\ Len(g.ideal_signal) >= 2
    /\ \A n \in 1..Len(g.ideal_signal) : g.ideal_signal[n] = 0
    /\ \E n \in 1..Len(g.signal) : g.signal[n] # 0
    /\ g.evm = Num(0)

\* C11: the EVM of a signal against itself is 0.  calculate_evm(x, x) = 0 for
\* every signal x with non-zero RMS, so the EVM shown after any slider update
\* (update_waveforms compares the noiseless waveform with itself) is 0 for
\* every amplitude setting.
C11_EvmSelfZero ==
    /\ (/\ script = "calculate_evm"
        /\ g.signal = g.ideal_signal
        /\ \E n \in 1..Len(g.ideal_signal) : g.ideal_signal[n] # 0) =>
           g.evm = Num(0) /\ g.err = "none"
    /\ script = "qam_updated_multigraph_animation" =>
           /\ g.shown.evm = Num(0)
           /\ g.shown.evm = calculate_evm(g.shown.line3, g.shown.line3)

C11_Witness ==
    /\ script = "qam_updated_multigraph_animation"
    /\ g.A = -2
    /\ g.B = 3
    /\ g.shown.line3 = <<3, -2, -3, 2>>
    /\ g.shown.evm = Num(0)

\* C12: noise with sigma = 0 is the identity.  With noise disabled the noisy
\* signal, the noisy I and Q rails and the plotted constellation points equal
\* the noise-free ones on every frame, whatever the random draws are.
C12_NoiseZeroIdentity ==
    /\ (/\ script = "16qam_realtime_w_noise"
        /\ g.user_input \notin {"yes", "y"}
        /\ g.frame >= 0) =>
           /\ LET noisy == noisy_modulated_signal_of(modulated_signal_w_noise,
                                                      g.noise_I, g.noise_Q)
              IN  \A n \in 1..((g.frame + 1) * g.samples_per_symbol) :
                      /\ noisy[n].wave = modulated_signal_w_noise[n]
                      /\ noisy[n].noise = 0
           /\ \A i \in 1..(g.frame + 1) :
                  /\ g.noisy_I[i] = 100 * g.I_values[i]
                  /\ g.noisy_Q[i] = 100 * g.Q_values[i]
    /\ (/\ script = "plot_constellation_and_waveform"
        /\ ~g.include_noise
        /\ g.frames_drawn > 0) =>
           /\ g.highlighted_point = <<100 * g.x_input, 100 * g.y_input>>
           /\ g.waveform = [cosAmp |-> 100 * g.x_input, sinAmp |-> -100 * g.y_input,
                            f |-> g.carrier_frequency]

C12_Witness ==
    /\ script = "16qam_realtime_w_noise"
    /\ g.user_input = "no"
    /\ g.noise_amplitude = 0
    /\ g.frame = 15
    /\ g.noise_I = <<0, 0>>
    /\ g.noisy_I[16] = 300

\* the carrier phase of a sample in eighths of a turn, or -1 when the cycle
\* count is no multiple of 1/8
Phase8(c) == IF (8 * c[1]) % c[2] = 0 THEN ((8 * c[1]) \div c[2]) % 8 ELSE -1

\* two samples a.cosAmp * cos + a.sinAmp * sin with integer amplitudes have
\* the same value: cos or sin vanishes at the quarter turns, they are equal
\* or opposite at the odd eighths, and at every other phase (tan irrational)
\* both amplitudes must agree
SameSample(a, b) ==
    LET da == a.cosAmp - b.cosAmp
        db == a.sinAmp - b.sinAmp
        p  == Phase8(a.cycles)
    IN  /\ a.cycles = b.cycles
        /\ CASE p \in {0, 4} -> da = 0
             [] p \in {2, 6} -> db = 0
             [] p \in {1, 5} -> da + db = 0
             [] p \in {3, 7} -> da - db = 0
             [] OTHER -> da = 0 /\ db = 0

\* C13 (as claimed): every modulator combines the rails by addition,
\* sample n = I(n) cos(2 pi f t[n]) + Q(n) sin(2 pi f t[n]); for the same
\* streams and rates 16qam.py gives the signal of qam_prompt.modulate_signal.
C13_AdditionEverywhere ==
    (script = "16qam" /\ g.err = "none") =>
        LET r == modulate_signal(g.I_values, g.Q_values, g.f_carrier,
                                 g.sample_rate, g.symbol_rate)
        IN  /\ r.err = "none"
            /\ Len(r.modulated_signal) = Len(g.modulated_signal)
            /\ \A n \in 1..Len(g.modulated_signal) :
                   SameSample(g.modulated_signal[n], r.modulated_signal[n])

\* C14: each labeling mode is a permutation.  For each of the four modes
\* the 16 bit labels are pairwise-distinct 4-bit strings covering all of
\* 0000 .. 1111, attached to the same 16 lattice points in the same order.
C14_LabelingPermutation ==
    (script = "with_choices" /\ g.choice \in {"1", "2", "3", "4"}) =>
        /\ Len(g.bit_values) = 16
        /\ \A i \in 1..16 :
               /\ Len(g.bit_values[i]) = 4
               /\ \A b \in 1..4 : g.bit_values[i][b] \in {0, 1}
        /\ \A i, j \in 1..16 : g.bit_values[i] = g.bit_values[j] => i = j
        /\ {BitsToInt(g.bit_values[i]) : i \in 1..16} = 0..15
        /\ g.decimal_values = [i \in 1..16 |-> BitsToInt(g.bit_values[i])]
        /\ g.I_values = I_values_choices
        /\ g.Q_values = Q_values_choices
        /\ Cardinality({<<g.I_values[i], g.Q_values[i]>> : i \in 1..16}) = 16

C14_Witness ==
    /\ script = "with_choices"
    /\ g.choice = "3"
    /\ g.plotted
    /\ g.bit_values[3] = <<0, 0, 1, 1>>
    /\ g.decimal_values[4] = 2

\* C15: natural-binary labeling violates the Gray adjacency invariant: in
\* that mode at least one pair of lattice-adjacent points (one amplitude step
\* apart in I or in Q) carries labels that differ in more than one bit.
C15_NaturalBinaryNotGray ==
    (script = "with_choices" /\ g.choice = "2") =>
        \E i, j \in 1..Len(g.bit_values) :
            /\ LatticeAdjacent(ChoicePoints[i], ChoicePoints[j])
            /\ HammingDistance(g.bit_values[i], g.bit_values[j]) > 1

C15_Witness ==
    /\ script = "with_choices"
    /\ g.choice = "2"
    /\ LatticeAdjacent(ChoicePoints[2], ChoicePoints[3])
    /\ g.bit_values[2] = <<0, 0, 0, 1>>
    /\ g.bit_values[3] = <<0, 0, 1, 0>>

GaussianQ_sqrt(y) ==
    IF y = Inf THEN 0
    ELSE erfc_sqrt(Num(Frac(y.val[1], 2 * y.val[2]))) \div 2

\* the standard M-QAM approximation
\* (4 / log2(M)) * (1 - 1/sqrt(M)) * Q(sqrt(3 * SNR / (M - 1))), SNR linear
StandardBer(snr, M) ==
    LET y == IF snr = Inf THEN Inf
             ELSE Num(Frac(3 * snr.val[1], (M - 1) * snr.val[2]))
    IN  (4 * one_minus_inv_sqrt(M) * GaussianQ_sqrt(y)) \div (log2(M) * 10000)

\* C18 (as claimed): calculate_ber(snr_db, M) equals the standard M-QAM
\* approximation (4/log2(M)) * (1 - 1/sqrt(M)) * Q(sqrt(3*SNR/(M-1))) with
\* SNR = 10^(snr_db/10) and Q(x) = erfc(x/sqrt(2))/2.
C18_BerIsStandardFormula ==
    script = "qam_updated_multigraph_animation" =>
        g.ber = StandardBer(g.snr_db.db_of, g.M)

\* C19 (as claimed): for every order selectable in the UI (2, 4, 16) and
\* every SNR reachable from the sliders, amplitude 0 with noise > 0 and noise
\* 0 included, the value of calculate_ber lies in [0, 1].
C19_BerIsProbability ==
    script = "qam_updated_multigraph_animation" =>
        0 <= g.ber /\ g.ber <= 10000

\* C17 (as claimed): the operations hold no mutable state, the result of a
\* call depends only on its declared arguments: as long as the snr_db passed
\* to QAMSimulation.calculate_ber is the same, its result is the same,
\* whatever modulation was selected in between.
C17_BerDependsOnArgumentsOnly ==
    [][g'.snr_db = g.snr_db => g'.ber = g.ber]_vars

\* C20 (as claimed): in every state reachable by toggle_stream,
\* change_modulation and animate, the index get_symbol_for_bits computes
\* from the current group of four bits is below the length of qam_signal:
\* animate never leaves with an IndexError.
C20_StreamIndexValid ==
    g.err # "IndexError"

\* the point the stream selects for the group of four bits at
\* current_bit_index, as <<I, Q>>
stream_symbol(self) == self.qam_signal[index_of_current_bits(self) + 1]

\* C21 (as claimed): while streaming, a frame of animate with frame_counter 0
\* (the first frame after the start and every symbol_duration-th after it)
\* selects a new symbol and advances current_bit_index by 4; every other
\* frame leaves current_bit_index and the selected symbol unchanged; the
\* frame counter counts modulo symbol_duration; and switching streaming on
\* sets current_bit_index and frame_counter to 0.
C21_SymbolCadence ==
    [][/\ (g.streaming /\ g'.frame = g.frame + 1) =>
            /\ g'.frame_counter = (g.frame_counter + 1) % symbol_duration
            /\ IF g.frame_counter = 0
               THEN /\ g'.current_bit_index =
                           (g.current_bit_index + 4) % Len(g.bit_sequence)
                    /\ index_of_current_bits(g) < Len(g.qam_signal)
                    /\ <<g'.B, g'.A>> = stream_symbol(g)
               ELSE /\ g'.current_bit_index = g.current_bit_index
                    /\ <<g'.B, g'.A>> = <<g.B, g.A>>
       /\ (~g.streaming /\ g'.streaming) =>
            g'.current_bit_index = 0 /\ g'.frame_counter = 0]_vars

\* the cadence of C21 while 16-QAM is selected
CadenceWith16QAM ==
    [][(g.streaming /\ g'.frame = g.frame + 1 /\ g.M = 16) =>
            /\ g'.frame_counter = (g.frame_counter + 1) % symbol_duration
            /\ IF g.frame_counter = 0
               THEN /\ g'.current_bit_index =
                           (g.current_bit_index + 4) % Len(g.bit_sequence)
                    /\ <<g'.B, g'.A>> = stream_symbol(g)
               ELSE /\ g'.current_bit_index = g.current_bit_index
                    /\ <<g'.B, g'.A>> = <<g.B, g.A>>]_vars

\* the number the j-th group (j from 0) of four bits of bit_sequence encodes
code_at(self, j) == int_base2(SubSeq(self.bit_sequence, 4 * j + 1, 4 * j + 4))

\* C22: bit_sequence holds the 4-bit codes of a permutation of 0..15,
\* current_bit_index is a multiple of 4 below 64, and with 16-QAM, in a
\* stream started before the first frame, the k-th symbol selection (made at
\* frame 40 * (k - 1) + 1) selects the point of the ((k - 1) mod 16)-th code:
\* 16 consecutive selections select each of the 16 distinct points once,
\* and the order repeats.
C22_EverySymbolOncePerPass ==
    /\ Len(g.bit_sequence) = 64
    /\ {code_at(g, j) : j \in 0..15} = 0..15
    /\ g.current_bit_index % 4 = 0
    /\ g.current_bit_index >= 0 /\ g.current_bit_index < 64
    /\ g.M = 16 =>
          /\ Len(g.qam_signal) = 16
          /\ Cardinality({g.qam_signal[i] : i \in 1..16}) = 16
    /\ (g.streaming /\ g.M = 16 /\ g.frame >= 1) =>
          LET k == (g.frame - 1) \div symbol_duration
          IN  /\ <<g.B, g.A>> = g.qam_signal[code_at(g, k % 16) + 1]
              /\ g.current_bit_index = (4 * (k + 1)) % 64

\* the 17th selection of a 16-QAM stream has just been made: it is the point
\* of the first selection again
C22_Witness ==
    /\ g.streaming /\ g.M = 16
    /\ g.frame = 16 * symbol_duration + 1
    /\ g.current_bit_index = 4
    /\ <<g.B, g.A>> = g.qam_signal[code_at(g, 0) + 1]
    /\ code_at(g, 0) = 15

\* C23 (as claimed): while streaming is on, a mouse click on a constellation
\* point changes neither A and B nor the two amplitude sliders.
C23_ClicksIgnoredWhileStreaming ==
    [][(g.streaming /\ QAMSimulation_click_point) =>
          <<g'.A, g'.B, g'.sAmp1, g'.sAmp2>> = <<g.A, g.B, g.sAmp1, g.sAmp2>>]_vars

\* the last n elements of the sequence s (all of s when it is shorter)
LastN(s, n) == IF Len(s) <= n THEN s ELSE SubSeq(s, Len(s) - n + 1, Len(s))

\* C24: the trail never holds more than max_trail_length points, and a call
\* of animate leaves the most recent max_trail_length points in the order
\* they were produced: the trail after the call is the trail before it
\* followed by the new noisy point, without its oldest points beyond
\* max_trail_length (a call that get_symbol_for_bits ends with an IndexError
\* produces no point and leaves the trail as it was).
C24_BoundedTrail ==
    /\ [](Len(g.trail_points) <= max_trail_length)
    /\ [][g'.frame = g.frame + 1 =>
            IF g.streaming /\ g.frame_counter = 0
               /\ index_of_current_bits(g) >= Len(g.qam_signal)
            THEN g'.trail_points = g.trail_points
            ELSE /\ Len(g'.trail_points) >= 1
                 /\ g'.trail_points =
                        LastN(Append(g.trail_points,
                                     g'.trail_points[Len(g'.trail_points)]),
                              max_trail_length)
                 /\ \E z_i \in Draws, z_q \in Draws :
                        g'.trail_points[Len(g'.trail_points)] =
                            <<100 * g'.B + g'.sNoise * z_i,
                              100 * g'.A + g'.sNoise * z_q>>]_vars

\* more than max_trail_length frames were animated, the trail is full, and
\* its oldest point differs from its newest
C24_Witness ==
    /\ g.frame > max_trail_length + 1
    /\ Len(g.trail_points) = max_trail_length
    /\ g.trail_points[1] # g.trail_points[max_trail_length]

\* the number a radio button label starts with
NumberInLabel(label) ==
    CASE label = "2-BPSK" -> 2 [] label = "4-QPSK" -> 4 [] label = "16-QAM" -> 16

\* the constellation and the binary labels are tables for the order n
TablesOfOrder(self, n) ==
    /\ self.M = n
    /\ Len(self.qam_signal) = n
    /\ Len(self.binary_values) = n
    /\ \A i \in 1..Len(self.binary_values) :
           Len(self.binary_values[i]) = log2(n)

\* C25: in qam_updated_multigraph_animation.py and in QAMSimulation, after
\* any sequence of change_modulation calls the constellation has exactly M
\* points and there are exactly M binary labels, each log2(M) bits wide,
\* where M is the number in the last selected label (2, 4 or 16).
C25_ModulationTablesConsistent ==
    /\ [](script \in {"qam_updated_multigraph_animation", "QAMSimulation"} =>
             g.M \in {2, 4, 16} /\ TablesOfOrder(g, g.M))
    /\ [][\A label \in ModulationLabels :
             (change_modulation_to(label)
                  \/ QAMSimulation_change_modulation_to(label))
             => TablesOfOrder(g', NumberInLabel(label))]_vars

\* QAMSimulation after a second change of modulation, now 2-BPSK: two
\* points and the labels 0 and 1
C25_Witness ==
    /\ script = "QAMSimulation"
    /\ g.events >= 2
    /\ g.M = 2
    /\ g.qam_signal = <<<<-1, 0>>, <<1, 0>>>>
    /\ g.binary_values = <<<<0>>, <<1>>>>

\* C28 (as claimed): a click on the toggle button flips show_circles_lines
\* and, when the animation has shown the symbols 0 .. f so far, the plots
\* after the click still show exactly the symbols 0 .. f.
C28_ToggleKeepsDisplay ==
    [][(/\ script = "16qam_realtime_w_noise"
        /\ script' = "16qam_realtime_w_noise"
        /\ g.frame >= 0
        /\ g'.show_circles_lines # g.show_circles_lines) =>
           /\ g'.show_circles_lines = ~g.show_circles_lines
           /\ g'.frame = g.frame
           /\ Len(g'.noisy_I) = g.frame + 1
           /\ Len(g'.noisy_Q) = g.frame + 1]_vars

\* C26 (as claimed): at every animation frame f of bpsk_realtime.py the
\* time-domain trace covers the samples of the symbols 0 .. f, so it includes
\* the symbol shown on the constellation diagram, and at the last frame the
\* whole modulated signal is shown.
C26_TraceFollowsSymbol ==
    (script = "bpsk_realtime" /\ g.frame >= 0) =>
        /\ g.points = <<g.symbols[g.frame + 1], 0>>
        /\ g.line1 >= (g.frame + 1) * g.samples_per_symbol
        /\ g.frame = num_symbols_bpsk - 1 => g.line1 = g.num_samples

\* C27: after a click at (x, y) inside the constellation axes, selected_point
\* is the index of a constellation point at minimum distance from (x, y),
\* the lowest such index, (current_I, current_Q) is that point, and
\* current_phase_angle_deg is its phase, in [0, 360); a click outside those
\* axes changes none of these.
C27_NearestPointSelected ==
    /\ []((/\ script = "plot_constellation_and_waveform_clickable"
           /\ g.event.inaxes = "ax1") =>
              LET s == g.selected_point + 1
                  d(i) == dist2_of(g.event, I_values_new[i], Q_values_new[i])
              IN  /\ g.selected_point \in 0..15
                  /\ \A i \in 1..16 : d(s) <= d(i)
                  /\ \A i \in 1..(s - 1) : d(s) < d(i)
                  /\ g.current_I = I_values_new[s]
                  /\ g.current_Q = Q_values_new[s]
                  /\ g.current_phase_angle_deg =
                         (arctan2_deg100(g.current_Q, g.current_I) + 36000) % 36000
                  /\ g.current_phase_angle_deg >= 0
                  /\ g.current_phase_angle_deg < 36000)
    /\ [][(/\ script = "plot_constellation_and_waveform_clickable"
           /\ script' = script
           /\ g'.event # g.event
           /\ g'.event.inaxes # "ax1") =>
              /\ g'.selected_point = g.selected_point
              /\ g'.current_I = g.current_I
              /\ g'.current_Q = g.current_Q
              /\ g'.current_phase_angle_deg = g.current_phase_angle_deg]_vars

\* a click at the origin, equally near to four points: the point (-1, -1)
\* with index 5 is selected, its phase is 225 degrees
C27_Witness ==
    /\ script = "plot_constellation_and_waveform_clickable"
    /\ g.event = [inaxes |-> "ax1", xdata |-> 0, ydata |-> 0]
    /\ g.selected_point = 5
    /\ <<g.current_I, g.current_Q>> = <<-1, -1>>
    /\ g.current_phase_angle_deg = 22500

====
